---- MODULE Spec2Model ----
(***************************************************************************)
(* Storage lifecycle of the cosmic-uploads backend (src/server.js), and    *)
(* the routes of src/backend/server.js that differ from it.                *)
(*                                                                         *)
(* Node runs the handlers and the two timer callbacks on one event loop:   *)
(* a callback runs without interruption up to its next `await`, so every   *)
(* action below is one such synchronous segment.  A file-system call       *)
(* (fs.unlink, fs.access, multer's disk write) is carried out by the       *)
(* operating system between the segment that issues it and the segment     *)
(* that resumes after it; that step is an action of its own, and other     *)
(* callbacks can run before and after it.                                  *)
(*                                                                         *)
(* Units: time is counted in days (the TTL is one), sizes in units such   *)
(* that one upload never exceeds the cap by itself, as with the 1GB       *)
(* upload limit under the 5GB cap.  A content type is the sequence of its  *)
(* parts, "image/png" being << "image/", "png" >>, so that startsWith is   *)
(* a comparison of leading parts.                                          *)
(***************************************************************************)
EXTENDS Integers, Sequences, FiniteSets, TLC

\* ---- bounds of the model
MaxFiles == 2
MaxTime == 2
\* operations between their first await and their end at any one time
MaxInFlight == 2
\* uploads in the side-by-side runs
MaxRegs == 3

\* ---- program constants (scaled units, see above)
TTL == 1
MAX_STORAGE == 3

FileIds == 1..MaxFiles
ClientFilesUnlimited ==
    { [originalname |-> "pic.png", mimetype |-> << "image/", "png" >>, size |-> 1],
      [originalname |-> "disk.img", mimetype |-> << "application/", "octet-stream" >>,
       size |-> MAX_STORAGE + 1] }

\* what a client may send: original name, declared content type and byte length
ClientFiles == { [originalname |-> "pic.png", mimetype |-> << "image/", "png" >>, size |-> 1],
                 [originalname |-> "pack.zip", mimetype |-> << "application/", "zip" >>,
                  size |-> 2] }

Uploaders == {"u1"}
PassProcs == {"timer"} \cup Uploaders
Handlers == {"h1"}

NoFile == [id |-> 0]
NoResp == [op |-> "none"]

VARIABLES
    fileMetadata,  \* the Map, as the sequence of its entries in insertion order
    uploadsDir,    \* ids whose blob is in the uploads directory
    now,           \* Date.now()
    nextId,        \* ids handed out so far (crypto.randomBytes never repeats)
    up,            \* upload requests: multer's write, then the handler
    pass,          \* manageStorageCapacity invocations, one per caller
    reaper,        \* the cleanExpiredFiles invocation
    req,           \* download / preview requests in flight
    detached,      \* unlinks issued by GET /api/file and not awaited
    resp,          \* the response sent by the last step, if any
    \* history of the run, read by the properties only: the ids taken out of
    \* the index, those taken out while neither past the TTL nor unlinked by
    \* a capacity pass, what each upload submitted, the blobs a capacity pass
    \* unlinked, how many calls answered Expired per id, and whether some
    \* fs.unlink has failed
    removed, lost, registered, capUnlinked, expiredCount, unlinkFailed,
    \* two runs of the server side by side, fed the same uploads, capacity passes
    \* and clock, of which only the second also serves requests for stored files
    pair

serverVars == << fileMetadata, uploadsDir, now, nextId, up, pass, reaper, req, detached, resp,
                 removed, lost, registered, capUnlinked, expiredCount, unlinkFailed >>

vars == << serverVars, pair >>

\* ---- the Map
MapIds(m) == { m[i].id : i \in 1..Len(m) }

MapHas(m, id) == id \in MapIds(m)

MapGet(m, id) == m[CHOOSE i \in 1..Len(m) : m[i].id = id]

MapDeleteForgotten(m, id) == m

MapDelete(m, id) == SelectSeq(m, LAMBDA r : r.id # id)

MapSet(m, id, metadata) ==
    IF MapHas(m, id)
    THEN [i \in 1..Len(m) |-> IF m[i].id = id THEN metadata ELSE m[i]]
    ELSE Append(m, metadata)

RECURSIVE SumSize(_)
SumSize(s) == IF s = << >> THEN 0 ELSE Head(s).size + SumSize(Tail(s))

\* Array.prototype.sort((a, b) => a.uploadTime - b.uploadTime): a stable sort
RECURSIVE InsertSorted(_, _)
InsertSorted(s, r) ==
    IF s = << >> THEN << r >>
    ELSE IF r.uploadTime < Head(s).uploadTime THEN << r >> \o s
    ELSE << Head(s) >> \o InsertSorted(Tail(s), r)

SortNewestFirst(s) == [i \in 1..Len(s) |-> s[Len(s) + 1 - i]]

RECURSIVE SortByUploadTime(_)
SortByUploadTime(s) ==
    IF s = << >> THEN << >>
    ELSE InsertSorted(SortByUploadTime(SubSeq(s, 1, Len(s) - 1)), s[Len(s)])

IsExpiredAtTTL(metadata, t) == t - metadata.uploadTime >= TTL

IsExpired(metadata, t) == t - metadata.uploadTime > TTL

\* ---- the operations in progress
InFlight ==
    Cardinality({u \in Uploaders : up[u].pc # "idle"})
    + (IF pass["timer"].pc # "idle" THEN 1 ELSE 0)
    + (IF reaper.pc # "idle" THEN 1 ELSE 0)
    + Cardinality({h \in Handlers : req[h].pc # "idle"})

CanStart == InFlight < MaxInFlight

\* ---- history helpers
CountUpTo2(f, id) == [f EXCEPT ![id] = IF @ < 2 THEN @ + 1 ELSE @]

\* what the client submitted for the upload that carries `id`, and when its handler ran
Submitted(id) ==
    LET u == CHOOSE u \in Uploaders : up[u].file.filename = id
    IN  [originalName |-> up[u].file.originalname, size |-> up[u].file.size,
         mimetype |-> up[u].file.mimetype, uploadTime |-> now]

\* the operating system reports a failed fs.unlink in this step
UnlinkFailsNow ==
    \/ \E q \in PassProcs :
          pass[q].pc = "unlink_wait" /\ pass'[q].pc = "unlink_done" /\ ~pass'[q].ok
    \/ reaper.pc = "unlink_wait" /\ reaper'.pc = "unlink_done" /\ ~reaper'.ok
    \/ \E h \in Handlers :
          req[h].pc = "unlink_wait" /\ req'[h].pc = "unlink_done" /\ ~req'[h].ok
    \/ detached' # detached /\ detached' \subseteq detached /\ uploadsDir' = uploadsDir

\* what the step did to the index and which result it sent, recorded for the properties
History ==
    /\ removed' = removed \cup (MapIds(fileMetadata) \ MapIds(fileMetadata'))
    /\ lost' = lost \cup { id \in MapIds(fileMetadata) \ MapIds(fileMetadata') :
                            /\ ~(now - MapGet(fileMetadata, id).uploadTime > TTL)
                            /\ id \notin capUnlinked }
    /\ registered' = [id \in FileIds |->
                        IF id \in MapIds(fileMetadata') \ MapIds(fileMetadata)
                        THEN Submitted(id)
                        ELSE IF id \in MapIds(fileMetadata') THEN registered[id] ELSE NoFile]
    /\ expiredCount' = IF resp'.op # "none" /\ resp'.result = "Expired"
                       THEN CountUpTo2(expiredCount, resp'.id)
                       ELSE expiredCount
    /\ unlinkFailed' = (unlinkFailed \/ UnlinkFailsNow)
    /\ UNCHANGED pair

\* ---- fs.unlink / fs.access as the operating system carries them out
\* the outcomes of unlink(id): it removes the blob, or fails and leaves the directory as it
\* is (ENOENT when the blob is not there, EPERM/EBUSY/EIO when it is)
UnlinkOutcomes(d, id) ==
    IF id \in d
    THEN { [ok |-> TRUE, dir |-> d \ {id}], [ok |-> FALSE, dir |-> d] }
    ELSE { [ok |-> FALSE, dir |-> d] }

AccessOk(d, id) == id \in d

\* ---- the capacity reaper
IdlePass == [pc |-> "idle", files |-> << >>, totalSize |-> 0, oldestFile |-> NoFile, ok |-> FALSE]

PassLoopPeek(files, totalSize) ==
    IF totalSize > MAX_STORAGE /\ Len(files) > 0
    THEN [pc |-> "unlink_wait", files |-> files, totalSize |-> totalSize,
          oldestFile |-> Head(files), ok |-> FALSE]
    ELSE IdlePass

\* the while loop's head: shift the oldest file and issue its unlink, or finish
PassLoop(files, totalSize) ==
    IF totalSize > MAX_STORAGE /\ Len(files) > 0
    THEN [pc |-> "unlink_wait", files |-> Tail(files), totalSize |-> totalSize,
          oldestFile |-> Head(files), ok |-> FALSE]
    ELSE IdlePass

\* from the call to the first await (or to the return)
manageStorageCapacity(m) ==
    LET files == SortByUploadTime(m)
    IN  PassLoop(files, SumSize(files))

PassAfterUnlinkGivesUp(m, p) ==
    IF p.ok
    THEN [map |-> MapDelete(m, p.oldestFile.id), totalSize |-> p.totalSize - p.oldestFile.size]
    ELSE [map |-> m, totalSize |-> 0]

\* after `await fs.unlink(oldestFile.filePath)`: the rest of the try block, or the catch
PassAfterUnlink(m, p) ==
    IF p.ok
    THEN [map |-> MapDelete(m, p.oldestFile.id), totalSize |-> p.totalSize - p.oldestFile.size]
    ELSE [map |-> m, totalSize |-> p.totalSize]

\* ---- POST /api/upload
ReusedId == IF removed # {} THEN CHOOSE id \in removed : TRUE ELSE nextId

CollidingId == IF fileMetadata # << >> THEN fileMetadata[1].id ELSE nextId

FreshId == nextId

IdleUpload == [pc |-> "idle", file |-> [filename |-> 0], uploadTime |-> 0]

UploadResponse(fileId, t) ==
    [op |-> "upload", id |-> fileId, result |-> "OK", body |-> [expiresAt |-> t + TTL],
     afterRemoval |-> FALSE, afterExpired |-> FALSE]

NewMetadata(file, t) ==
    [id |-> file.filename, originalName |-> file.originalname, size |-> file.size,
     mimetype |-> file.mimetype, uploadTime |-> t, filePath |-> file.filename]

\* multer's diskStorage writes the blob under a fresh id: either the blob is written,
\* or the write fails (disk full, permission denied) and no blob is kept under the id
WriteIgnoringError(d, id) == { [ok |-> TRUE, dir |-> d \cup {id}], [ok |-> TRUE, dir |-> d] }

WriteOutcomes(d, id) == { [ok |-> TRUE, dir |-> d \cup {id}], [ok |-> FALSE, dir |-> d] }

\* upload.single('file'): after the write req.file is ready for the route handler; a
\* write that failed goes to Express as an error and the route handler does not run
UploadWrite(u) ==
    /\ up[u].pc = "idle"
    /\ CanStart
    /\ nextId <= MaxFiles
    /\ \E f \in ClientFiles, o \in WriteOutcomes(uploadsDir, FreshId) :
          /\ uploadsDir' = o.dir
          /\ IF o.ok
             THEN /\ up' = [up EXCEPT ![u] = [pc |-> "written",
                              file |-> [filename |-> FreshId, originalname |-> f.originalname,
                                        mimetype |-> f.mimetype, size |-> f.size],
                              uploadTime |-> 0]]
                  /\ resp' = NoResp
             ELSE /\ up' = up
                  /\ resp' = [op |-> "upload", id |-> FreshId, result |-> "WriteFailed",
                              body |-> << >>, afterRemoval |-> FALSE, afterExpired |-> FALSE]
    /\ nextId' = nextId + 1
    /\ UNCHANGED << fileMetadata, now, pass, reaper, req, detached, capUnlinked >>
    /\ History

CalledWithoutAwait(p) == TRUE

\* `await manageStorageCapacity()`: the handler goes on once the pass p has returned
Awaited(p) == p.pc = "idle"

\* the route handler, up to `await manageStorageCapacity()` reaching its first await;
\* its `metadata` stays in scope over the await
UploadHandler(u) ==
    /\ up[u].pc = "written"
    /\ LET metadata == NewMetadata(up[u].file, now)
           m == MapSet(fileMetadata, metadata.id, metadata)
           p == manageStorageCapacity(m)
       IN  /\ fileMetadata' = m
           /\ pass' = [pass EXCEPT ![u] = p]
           /\ IF Awaited(p)
              THEN /\ up' = [up EXCEPT ![u] = IdleUpload]
                   /\ resp' = UploadResponse(metadata.id, now)
              ELSE /\ up' = [up EXCEPT ![u].pc = "inpass", ![u].uploadTime = metadata.uploadTime]
                   /\ resp' = NoResp
    /\ UNCHANGED << uploadsDir, now, nextId, reaper, req, detached, capUnlinked >>
    /\ History

\* setInterval(manageStorageCapacity, ...) and the call at startup
TimerCapacityPass ==
    /\ pass["timer"].pc = "idle"
    /\ CanStart
    /\ LET p == manageStorageCapacity(fileMetadata)
       IN  /\ pass' = [pass EXCEPT !["timer"] = p]
    /\ resp' = NoResp
    /\ UNCHANGED << fileMetadata, uploadsDir, now, nextId, up, reaper, req, detached,
                    capUnlinked >>
    /\ History

\* the operating system carries out the pass's pending unlink
PassUnlinkOS(q) ==
    /\ pass[q].pc = "unlink_wait"
    /\ \E o \in UnlinkOutcomes(uploadsDir, pass[q].oldestFile.id) :
          /\ uploadsDir' = o.dir
          /\ pass' = [pass EXCEPT ![q].pc = "unlink_done", ![q].ok = o.ok]
          /\ capUnlinked' = IF o.ok THEN capUnlinked \cup {pass[q].oldestFile.id}
                            ELSE capUnlinked
    /\ resp' = NoResp
    /\ UNCHANGED << fileMetadata, now, nextId, up, reaper, req, detached >>
    /\ History

\* the pass resumes after its await, and runs to its next await or to its end;
\* an upload's pass that ends lets the upload handler send its response
PassResume(q) ==
    /\ pass[q].pc = "unlink_done"
    /\ LET a == PassAfterUnlink(fileMetadata, pass[q])
           p == PassLoop(pass[q].files, a.totalSize)
       IN  /\ fileMetadata' = a.map
           /\ pass' = [pass EXCEPT ![q] = p]
           /\ IF Awaited(p) /\ q \in Uploaders
              THEN /\ up' = [up EXCEPT ![q] = IdleUpload]
                   /\ resp' = UploadResponse(up[q].file.filename, now)
              ELSE /\ up' = up
                   /\ resp' = NoResp
    /\ UNCHANGED << uploadsDir, now, nextId, reaper, req, detached, capUnlinked >>
    /\ History

\* ---- the clock
Tick ==
    /\ now < MaxTime
    /\ now' = now + 1
    /\ resp' = NoResp
    /\ UNCHANGED << fileMetadata, uploadsDir, nextId, up, pass, reaper, req, detached, capUnlinked >>
    /\ History

\* ---- the expiry reaper
IdleReaper == [pc |-> "idle", expiredFiles |-> << >>, i |-> 0, fileId |-> 0, ok |-> FALSE]

\* the first loop: the ids of the entries older than the TTL, in the Map's order
RECURSIVE ExpiredIds(_, _)
ExpiredIds(m, t) ==
    IF m = << >> THEN << >>
    ELSE (IF IsExpired(Head(m), t) THEN << Head(m).id >> ELSE << >>) \o ExpiredIds(Tail(m), t)

RECURSIVE ReaperLoopThrows(_, _, _)
ReaperLoopThrows(m, expiredFiles, i) ==
    IF i > Len(expiredFiles) THEN IdleReaper
    ELSE IF MapHas(m, expiredFiles[i])
         THEN [pc |-> "unlink_wait", expiredFiles |-> expiredFiles, i |-> i,
               fileId |-> expiredFiles[i], ok |-> FALSE]
         ELSE [pc |-> "uncaught", expiredFiles |-> expiredFiles, i |-> i,
               fileId |-> expiredFiles[i], ok |-> FALSE]

\* the second loop from its i-th element up to its next await: an id whose entry
\* is gone makes `metadata.filePath` throw, which the catch logs, and the loop goes on
RECURSIVE ReaperLoop(_, _, _)
ReaperLoop(m, expiredFiles, i) ==
    IF i > Len(expiredFiles) THEN IdleReaper
    ELSE IF MapHas(m, expiredFiles[i])
         THEN [pc |-> "unlink_wait", expiredFiles |-> expiredFiles, i |-> i,
               fileId |-> expiredFiles[i], ok |-> FALSE]
         ELSE ReaperLoop(m, expiredFiles, i + 1)

ReaperAfterUnlinkKeeps(m, r) == m

\* after `await fs.unlink(metadata.filePath)`: the delete, or the catch
ReaperAfterUnlink(m, r) == IF r.ok THEN MapDelete(m, r.fileId) ELSE m

\* setInterval(cleanExpiredFiles, ...) and the call at startup
cleanExpiredFiles ==
    /\ reaper.pc = "idle"
    /\ CanStart
    /\ LET r == ReaperLoop(fileMetadata, ExpiredIds(fileMetadata, now), 1)
       IN  /\ reaper' = r
    /\ resp' = NoResp
    /\ UNCHANGED << fileMetadata, uploadsDir, now, nextId, up, pass, req, detached, capUnlinked >>
    /\ History

ReaperUnlinkOS ==
    /\ reaper.pc = "unlink_wait"
    /\ \E o \in UnlinkOutcomes(uploadsDir, reaper.fileId) :
          /\ uploadsDir' = o.dir
          /\ reaper' = [reaper EXCEPT !.pc = "unlink_done", !.ok = o.ok]
    /\ resp' = NoResp
    /\ UNCHANGED << fileMetadata, now, nextId, up, pass, req, detached, capUnlinked >>
    /\ History

ReaperResume ==
    /\ reaper.pc = "unlink_done"
    /\ LET m == ReaperAfterUnlink(fileMetadata, reaper)
           r == ReaperLoop(m, reaper.expiredFiles, reaper.i + 1)
       IN  /\ fileMetadata' = m
           /\ reaper' = r
    /\ resp' = NoResp
    /\ UNCHANGED << uploadsDir, now, nextId, up, pass, req, detached, capUnlinked >>
    /\ History

\* ---- the request handlers
Response(op, fileId, result, body) ==
    [op |-> op, id |-> fileId, result |-> result, body |-> body,
     afterRemoval |-> fileId \in removed, afterExpired |-> expiredCount[fileId] > 0]

FileInfoFromNow(fileId, metadata) ==
    [fileId |-> fileId, originalName |-> metadata.originalName, size |-> metadata.size,
     mimetype |-> metadata.mimetype, uploadTime |-> metadata.uploadTime,
     expiresAt |-> now + TTL]

\* the JSON of GET /api/file/:fileId
FileInfo(fileId, metadata) ==
    [fileId |-> fileId, originalName |-> metadata.originalName, size |-> metadata.size,
     mimetype |-> metadata.mimetype, uploadTime |-> metadata.uploadTime,
     expiresAt |-> metadata.uploadTime + TTL]

\* GET /api/file/:fileId: one synchronous segment; its unlink is not awaited
GetFile(fileId) ==
    /\ IF ~MapHas(fileMetadata, fileId)
       THEN /\ resp' = Response("file", fileId, "NotFound", << >>)
            /\ UNCHANGED << fileMetadata, detached >>
       ELSE LET metadata == MapGet(fileMetadata, fileId)
            IN  IF IsExpired(metadata, now)
                THEN /\ fileMetadata' = MapDelete(fileMetadata, fileId)
                     /\ detached' = detached \cup {fileId}
                     /\ resp' = Response("file", fileId, "Expired", << >>)
                ELSE /\ resp' = Response("file", fileId, "OK", FileInfo(fileId, metadata))
                     /\ UNCHANGED << fileMetadata, detached >>
    /\ UNCHANGED << uploadsDir, now, nextId, up, pass, reaper, req, capUnlinked >>
    /\ History

\* the operating system carries out an unlink nobody waits for; .catch swallows a failure
DetachedUnlinkOS(fileId) ==
    /\ fileId \in detached
    /\ \E o \in UnlinkOutcomes(uploadsDir, fileId) : uploadsDir' = o.dir
    /\ detached' = detached \ {fileId}
    /\ resp' = NoResp
    /\ UNCHANGED << fileMetadata, now, nextId, up, pass, reaper, req, capUnlinked >>
    /\ History

IdleRequest == [pc |-> "idle", op |-> "none", fileId |-> 0, metadata |-> NoFile,
                ok |-> FALSE, afterRemoval |-> FALSE, afterExpired |-> FALSE]

Pending(pc, op, fileId, metadata) ==
    [pc |-> pc, op |-> op, fileId |-> fileId, metadata |-> metadata, ok |-> FALSE,
     afterRemoval |-> fileId \in removed, afterExpired |-> expiredCount[fileId] > 0]

\* the response of a handler that resumes after an await: it started when h did
Late(h, result, body) ==
    [op |-> req[h].op, id |-> req[h].fileId, result |-> result, body |-> body,
     afterRemoval |-> req[h].afterRemoval, afterExpired |-> req[h].afterExpired]

previewableTypesWide == { << "image/" >>, << "text/" >>, << "application/" >> }

previewableTypes == { << "image/" >>, << "text/" >>, << "application/", "json" >>,
                      << "application/", "pdf" >> }

\* String.prototype.startsWith
startsWith(s, prefix) == Len(prefix) <= Len(s) /\ SubSeq(s, 1, Len(prefix)) = prefix

isPreviewable(mimetype) == \E type \in previewableTypes : startsWith(mimetype, type)

\* what download and preview send with the blob
FileHeaders(op, metadata) ==
    IF op = "download"
    THEN [disposition |-> metadata.originalName, type |-> metadata.mimetype,
          path |-> metadata.filePath]
    ELSE [type |-> metadata.mimetype, path |-> metadata.filePath]

\* GET /api/download/:fileId, up to its first await
Download(h, fileId) ==
    /\ req[h].pc = "idle"
    /\ CanStart
    /\ IF ~MapHas(fileMetadata, fileId)
       THEN /\ resp' = Response("download", fileId, "NotFound", << >>)
            /\ UNCHANGED << fileMetadata, req >>
       ELSE LET metadata == MapGet(fileMetadata, fileId)
            IN  IF IsExpired(metadata, now)
                THEN /\ fileMetadata' = MapDelete(fileMetadata, fileId)
                     /\ req' = [req EXCEPT ![h] =
                                   Pending("unlink_wait", "download", fileId, metadata)]
                     /\ resp' = NoResp
                ELSE /\ req' = [req EXCEPT ![h] =
                                   Pending("access_wait", "download", fileId, metadata)]
                     /\ resp' = NoResp
                     /\ UNCHANGED << fileMetadata >>
    /\ UNCHANGED << uploadsDir, now, nextId, up, pass, reaper, detached, capUnlinked >>
    /\ History

\* GET /api/preview/:fileId, up to its first await
Preview(h, fileId) ==
    /\ req[h].pc = "idle"
    /\ CanStart
    /\ IF ~MapHas(fileMetadata, fileId)
       THEN /\ resp' = Response("preview", fileId, "NotFound", << >>)
            /\ UNCHANGED << fileMetadata, req >>
       ELSE LET metadata == MapGet(fileMetadata, fileId)
            IN  IF IsExpired(metadata, now)
                THEN /\ fileMetadata' = MapDelete(fileMetadata, fileId)
                     /\ req' = [req EXCEPT ![h] =
                                   Pending("unlink_wait", "preview", fileId, metadata)]
                     /\ resp' = NoResp
                ELSE /\ resp' = IF isPreviewable(metadata.mimetype)
                                THEN Response("preview", fileId, "File",
                                              FileHeaders("preview", metadata))
                                ELSE Response("preview", fileId, "NotPreviewable", << >>)
                     /\ UNCHANGED << fileMetadata, req >>
    /\ UNCHANGED << uploadsDir, now, nextId, up, pass, reaper, detached, capUnlinked >>
    /\ History

\* the operating system carries out the handler's pending unlink or access
RequestFsOS(h) ==
    /\ \/ /\ req[h].pc = "unlink_wait"
          /\ \E o \in UnlinkOutcomes(uploadsDir, req[h].fileId) :
                /\ uploadsDir' = o.dir
                /\ req' = [req EXCEPT ![h].pc = "unlink_done", ![h].ok = o.ok]
       \/ /\ req[h].pc = "access_wait"
          /\ req' = [req EXCEPT ![h].pc = "access_done",
                                ![h].ok = AccessOk(uploadsDir, req[h].fileId)]
          /\ uploadsDir' = uploadsDir
    /\ resp' = NoResp
    /\ UNCHANGED << fileMetadata, now, nextId, up, pass, reaper, detached, capUnlinked >>
    /\ History

\* the handler resumes after its await and responds
RequestResume(h) ==
    /\ \/ /\ req[h].pc = "unlink_done"
          /\ resp' = Late(h, "Expired", << >>)
          /\ fileMetadata' = fileMetadata
       \/ /\ req[h].pc = "access_done"
          /\ req[h].ok
          /\ resp' = Late(h, "File", FileHeaders("download", req[h].metadata))
          /\ fileMetadata' = fileMetadata
       \/ /\ req[h].pc = "access_done"
          /\ ~req[h].ok
          /\ fileMetadata' = MapDelete(fileMetadata, req[h].fileId)
          /\ resp' = Late(h, "NotOnDisk", << >>)
    /\ req' = [req EXCEPT ![h] = IdleRequest]
    /\ UNCHANGED << uploadsDir, now, nextId, up, pass, reaper, detached, capUnlinked >>
    /\ History

\* ---- src/backend/server.js, second listing: the routes that differ from the above
\* GET /file/:fileId, the page for link previews: what it renders of the record
FilePageData(metadata) ==
    [title |-> metadata.originalName, size |-> metadata.size,
     image |-> startsWith(metadata.mimetype, << "image/" >>),
     uploadTime |-> metadata.uploadTime]

\* GET /file/:fileId: one synchronous segment that reads the Map and touches nothing
FilePage(fileId) ==
    /\ IF ~MapHas(fileMetadata, fileId)
       THEN resp' = Response("page", fileId, "NotFound", << >>)
       ELSE resp' = Response("page", fileId, "Page", FilePageData(MapGet(fileMetadata, fileId)))
    /\ UNCHANGED << fileMetadata, uploadsDir, now, nextId, up, pass, reaper, req, detached,
                    capUnlinked >>
    /\ History

\* GET /api/download/:fileId of that listing, up to its first await
BackendDownload(h, fileId) ==
    /\ req[h].pc = "idle"
    /\ CanStart
    /\ IF ~MapHas(fileMetadata, fileId)
       THEN /\ resp' = Response("backend_download", fileId, "NotFound", << >>)
            /\ UNCHANGED << fileMetadata, req >>
       ELSE LET metadata == MapGet(fileMetadata, fileId)
            IN  IF IsExpired(metadata, now)
                THEN /\ fileMetadata' = MapDelete(fileMetadata, fileId)
                     /\ req' = [req EXCEPT ![h] =
                                   Pending("unlink_wait", "backend_download", fileId, metadata)]
                     /\ resp' = NoResp
                ELSE /\ req' = [req EXCEPT ![h] =
                                   Pending("b_access_wait", "backend_download", fileId, metadata)]
                     /\ resp' = NoResp
                     /\ UNCHANGED << fileMetadata >>
    /\ UNCHANGED << uploadsDir, now, nextId, up, pass, reaper, detached, capUnlinked >>
    /\ History

\* the operating system carries out its fs.access
BackendAccessOS(h) ==
    /\ req[h].pc = "b_access_wait"
    /\ req' = [req EXCEPT ![h].pc = "b_access_done",
                          ![h].ok = AccessOk(uploadsDir, req[h].fileId)]
    /\ resp' = NoResp
    /\ UNCHANGED << fileMetadata, uploadsDir, now, nextId, up, pass, reaper, detached,
                    capUnlinked >>
    /\ History

\* after `await fs.access(...).catch(() => { throw ... })`: the file is sent, or the
\* error reaches the outer catch, which answers 500 and leaves the Map as it is
BackendDownloadResume(h) ==
    /\ req[h].pc = "b_access_done"
    /\ IF req[h].ok
       THEN resp' = Late(h, "File", FileHeaders("download", req[h].metadata))
       ELSE resp' = Late(h, "DownloadFailed", << >>)
    /\ req' = [req EXCEPT ![h] = IdleRequest]
    /\ UNCHANGED << fileMetadata, uploadsDir, now, nextId, up, pass, reaper, detached,
                    capUnlinked >>
    /\ History

\* ---- two runs side by side
\* One run is the state of the upload route and of manageStorageCapacity: the
\* index, the blobs, the two invocations of the pass, one download in progress;
\* with it the blobs its passes have unlinked, in order, everything it has
\* registered, in order, whether an unlink of its passes has failed, and the last
\* read-only request it served.  The file system is the same for both runs: an
\* unlink fails exactly when the blob is not there.
RunIds == 1..MaxRegs

IdleDownload == [pc |-> "idle", fileId |-> 0, ok |-> FALSE]

EmptyRun ==
    [fileMetadata |-> << >>, uploadsDir |-> {}, pass |-> [q \in PassProcs |-> IdlePass],
     inpass |-> FALSE, req |-> IdleDownload, evicted |-> << >>, all |-> << >>,
     failed |-> FALSE, seen |-> "none"]

\* POST /api/upload in run r: the blob is written under `id`, the handler sets the
\* record at time t and calls manageStorageCapacity
RunRegister(r, f, id, t) ==
    LET file == [filename |-> id, originalname |-> f.originalname,
                 mimetype |-> f.mimetype, size |-> f.size]
        metadata == NewMetadata(file, t)
        m == MapSet(r.fileMetadata, metadata.id, metadata)
        p == manageStorageCapacity(m)
    IN  [r EXCEPT !.uploadsDir = @ \cup {id}, !.fileMetadata = m, !.pass["u1"] = p,
                  !.inpass = ~Awaited(p), !.all = Append(@, metadata)]

\* setInterval(manageStorageCapacity, ...) fires in run r
RunTimerPass(r) == [r EXCEPT !.pass["timer"] = manageStorageCapacity(r.fileMetadata)]

\* the operating system carries out the pending unlink of pass q of run r, if it has one
RunUnlinkOS(r, q) ==
    IF r.pass[q].pc # "unlink_wait" THEN r
    ELSE LET id == r.pass[q].oldestFile.id
             o == CHOOSE o \in UnlinkOutcomes(r.uploadsDir, id) : o.ok = (id \in r.uploadsDir)
         IN  [r EXCEPT !.uploadsDir = o.dir, !.pass[q].pc = "unlink_done", !.pass[q].ok = o.ok,
                       !.evicted = IF o.ok THEN Append(@, id) ELSE @,
                       !.failed = (@ \/ ~o.ok)]

\* pass q of run r resumes after its await, if it is waiting for one
RunResume(r, q) ==
    IF r.pass[q].pc # "unlink_done" THEN r
    ELSE LET a == PassAfterUnlink(r.fileMetadata, r.pass[q])
             p == PassLoop(r.pass[q].files, a.totalSize)
         IN  [r EXCEPT !.fileMetadata = a.map, !.pass[q] = p,
                       !.inpass = IF q \in Uploaders THEN ~Awaited(p) ELSE @]

\* GET /api/download/:fileId of an unexpired record, up to `await fs.access`
RunDownload(r, fileId) == [r EXCEPT !.req = [pc |-> "access_wait", fileId |-> fileId, ok |-> FALSE]]

RunAccessOS(r) ==
    [r EXCEPT !.req.pc = "access_done", !.req.ok = AccessOk(r.uploadsDir, r.req.fileId)]

\* after `await fs.access`: sendFile, or the catch that deletes the entry
RunDownloadResume(r) ==
    [r EXCEPT !.req = IdleDownload,
              !.fileMetadata = IF r.req.ok THEN @ ELSE MapDelete(@, r.req.fileId),
              !.seen = "download"]

\* GET /api/file/:fileId or GET /api/preview/:fileId of an unexpired record
RunRead(r, op) == [r EXCEPT !.seen = op]

Unexpired(r, fileId, t) ==
    MapHas(r.fileMetadata, fileId) /\ ~IsExpired(MapGet(r.fileMetadata, fileId), t)

\* both runs take the step
PairRegister ==
    /\ pair.nextId <= MaxRegs
    /\ ~pair.a.inpass /\ ~pair.b.inpass
    /\ \E f \in ClientFiles :
          pair' = [pair EXCEPT !.a = RunRegister(@, f, pair.nextId, pair.now),
                               !.b = RunRegister(@, f, pair.nextId, pair.now),
                               !.nextId = @ + 1]
    /\ UNCHANGED serverVars

PairTimerPass ==
    /\ pair.a.pass["timer"].pc = "idle" /\ pair.b.pass["timer"].pc = "idle"
    /\ pair' = [pair EXCEPT !.a = RunTimerPass(@), !.b = RunTimerPass(@)]
    /\ UNCHANGED serverVars

PairUnlinkOS(q) ==
    /\ pair.a.pass[q].pc = "unlink_wait" \/ pair.b.pass[q].pc = "unlink_wait"
    /\ pair' = [pair EXCEPT !.a = RunUnlinkOS(@, q), !.b = RunUnlinkOS(@, q)]
    /\ UNCHANGED serverVars

PairResume(q) ==
    /\ pair.a.pass[q].pc = "unlink_done" \/ pair.b.pass[q].pc = "unlink_done"
    /\ pair' = [pair EXCEPT !.a = RunResume(@, q), !.b = RunResume(@, q)]
    /\ UNCHANGED serverVars

PairTick ==
    /\ pair.now < MaxTime
    /\ pair' = [pair EXCEPT !.now = @ + 1]
    /\ UNCHANGED serverVars

\* only the second run takes the step
AccessDownload(fileId) ==
    /\ pair.b.req.pc = "idle"
    /\ Unexpired(pair.b, fileId, pair.now)
    /\ pair' = [pair EXCEPT !.b = RunDownload(@, fileId)]
    /\ UNCHANGED serverVars

AccessOS ==
    /\ pair.b.req.pc = "access_wait"
    /\ pair' = [pair EXCEPT !.b = RunAccessOS(@)]
    /\ UNCHANGED serverVars

AccessResume ==
    /\ pair.b.req.pc = "access_done"
    /\ pair' = [pair EXCEPT !.b = RunDownloadResume(@)]
    /\ UNCHANGED serverVars

AccessRead(op, fileId) ==
    /\ Unexpired(pair.b, fileId, pair.now)
    /\ pair' = [pair EXCEPT !.b = RunRead(@, op)]
    /\ UNCHANGED serverVars

NextPair ==
    \/ PairRegister
    \/ PairTimerPass
    \/ \E q \in PassProcs : PairUnlinkOS(q)
    \/ \E q \in PassProcs : PairResume(q)
    \/ PairTick
    \/ \E fileId \in RunIds : AccessDownload(fileId)
    \/ AccessOS
    \/ AccessResume
    \/ \E op \in {"file", "preview"}, fileId \in RunIds : AccessRead(op, fileId)

\* a blob disappears from the uploads directory behind the server's back, the case
\* the download route checks for with fs.access
BlobVanishes(fileId) ==
    /\ fileId \in uploadsDir
    /\ uploadsDir' = uploadsDir \ {fileId}
    /\ resp' = NoResp
    /\ UNCHANGED << fileMetadata, now, nextId, up, pass, reaper, req, detached, capUnlinked >>
    /\ History

Init ==
    /\ fileMetadata = << >>
    /\ uploadsDir = {}
    /\ now = 0
    /\ nextId = 1
    /\ up = [u \in Uploaders |-> IdleUpload]
    /\ pass = [q \in PassProcs |-> IdlePass]
    /\ reaper = IdleReaper
    /\ req = [h \in Handlers |-> IdleRequest]
    /\ detached = {}
    /\ resp = NoResp
    /\ removed = {}
    /\ lost = {}
    /\ registered = [id \in FileIds |-> NoFile]
    /\ capUnlinked = {}
    /\ expiredCount = [id \in FileIds |-> 0]
    /\ unlinkFailed = FALSE
    /\ pair = [a |-> EmptyRun, b |-> EmptyRun, now |-> 0, nextId |-> 1]

Next ==
    \/ \E u \in Uploaders : UploadWrite(u)
    \/ \E u \in Uploaders : UploadHandler(u)
    \/ TimerCapacityPass
    \/ \E q \in PassProcs : PassUnlinkOS(q)
    \/ \E q \in PassProcs : PassResume(q)
    \/ cleanExpiredFiles
    \/ ReaperUnlinkOS
    \/ ReaperResume
    \/ \E fileId \in FileIds : GetFile(fileId)
    \/ \E fileId \in FileIds : DetachedUnlinkOS(fileId)
    \/ \E h \in Handlers, fileId \in FileIds : Download(h, fileId)
    \/ \E h \in Handlers, fileId \in FileIds : Preview(h, fileId)
    \/ \E h \in Handlers : RequestFsOS(h)
    \/ \E h \in Handlers : RequestResume(h)
    \/ Tick

Spec == Init /\ [][Next]_vars

\* the server of src/backend/server.js (second listing) with its uploads, its capacity
\* timer and its routes, on a disk that can lose blobs; its expiry timer is left out
NextBackend ==
    \/ \E u \in Uploaders : UploadWrite(u)
    \/ \E u \in Uploaders : UploadHandler(u)
    \/ TimerCapacityPass
    \/ \E q \in PassProcs : PassUnlinkOS(q)
    \/ \E q \in PassProcs : PassResume(q)
    \/ \E fileId \in FileIds : GetFile(fileId)
    \/ \E fileId \in FileIds : DetachedUnlinkOS(fileId)
    \/ \E fileId \in FileIds : FilePage(fileId)
    \/ \E h \in Handlers, fileId \in FileIds : BackendDownload(h, fileId)
    \/ \E h \in Handlers : BackendAccessOS(h)
    \/ \E h \in Handlers : BackendDownloadResume(h)
    \/ \E h \in Handlers, fileId \in FileIds : Preview(h, fileId)
    \/ \E h \in Handlers : RequestFsOS(h)
    \/ \E h \in Handlers : RequestResume(h)
    \/ \E fileId \in FileIds : BlobVanishes(fileId)
    \/ Tick

BackendSpec == Init /\ [][NextBackend]_vars

\* the two runs side by side
PairSpec == Init /\ [][NextPair]_vars

\* ======================================================================
\* Properties
\* ======================================================================

\* the operations that have issued fs.unlink for the blob of `id` and have not yet
\* run past it
UnlinkIssuers(id) ==
    { q \in PassProcs : pass[q].pc \in {"unlink_wait", "unlink_done"}
                        /\ pass[q].oldestFile.id = id }
    \cup { h \in Handlers : req[h].pc \in {"unlink_wait", "unlink_done"}
                            /\ req[h].fileId = id }
    \cup (IF reaper.pc \in {"unlink_wait", "unlink_done"} /\ reaper.fileId = id
          THEN {"reaper"} ELSE {})
    \cup (IF id \in detached THEN {"file"} ELSE {})

\* the capacity pass q removes an entry from the index in this step
PassDeletes(q) ==
    /\ pass[q].pc = "unlink_done"
    /\ pass'[q] # pass[q]
    /\ MapHas(fileMetadata, pass[q].oldestFile.id)
    /\ ~MapHas(fileMetadata', pass[q].oldestFile.id)

\* the capacity pass q returns in this step
PassCompletes(q) ==
    /\ pass[q].pc = "unlink_done"
    /\ pass'[q].pc = "idle"

DistinctUploadTimes(m) ==
    \A i, j \in 1..Len(m) : i # j => m[i].uploadTime # m[j].uploadTime

\* the entry with the least upload time
Oldest(m) == CHOOSE r \in { m[i] : i \in 1..Len(m) } :
                \A i \in 1..Len(m) : r.uploadTime <= m[i].uploadTime

\* C1: for every identifier at most one operation issues a removal of its blob,
\* whatever lookups, downloads, previews and reaper passes interleave: no two
\* operations ever have an unlink of the same blob under way.
C1_AtMostOneDeletion == \A id \in FileIds : Cardinality(UnlinkIssuers(id)) <= 1

\* C2: when a capacity-reaper pass completes, the sizes of the records left in the
\* index sum to at most the cap, or the index is empty.
C2_UnderCapAfterPass ==
    [][\A q \in PassProcs :
          PassCompletes(q) =>
              \/ SumSize(fileMetadata') <= MAX_STORAGE
              \/ fileMetadata' = << >>]_vars

\* C3: every deletion path removes the index entry before it attempts to remove the
\* blob: while an operation has an unlink of a blob under way, the index holds no
\* entry for it, also when the unlink fails.
C3_IndexEntryRemovedFirst ==
    \A id \in FileIds : UnlinkIssuers(id) # {} => ~MapHas(fileMetadata, id)

\* C4: no state between two steps of the event loop shows an index entry whose blob
\* the manager has already removed.
C4_NoEntryWithoutBlob == \A id \in MapIds(fileMetadata) : id \in uploadsDir

\* C5: a capacity-reaper pass removes a record only when the sizes of the records
\* in the index at that moment sum to more than the cap.
C5_EvictsOnlyOverCap ==
    [][\A q \in PassProcs : PassDeletes(q) => SumSize(fileMetadata) > MAX_STORAGE]_vars

\* C9: with pairwise distinct upload times, when removing one record is what brings
\* the index to the cap, the record a capacity pass removes is the oldest one.
C9_OldestFirst ==
    [][\A q \in PassProcs :
          ( /\ PassDeletes(q)
            /\ DistinctUploadTimes(fileMetadata)
            /\ SumSize(fileMetadata) > MAX_STORAGE
            /\ SumSize(fileMetadata) - Oldest(fileMetadata).size <= MAX_STORAGE )
          => pass[q].oldestFile.id = Oldest(fileMetadata).id]_vars

IsLookup(r) == r.op \in {"file", "download", "preview"}

\* C6: per identifier at most one metadata, download or preview call answers
\* Expired; that call has removed the record, and every call that starts after an
\* Expired answer gets NotFound.
C6_ExpiredAtMostOnce ==
    /\ \A id \in FileIds :
          /\ expiredCount[id] <= 1
          /\ expiredCount[id] = 1 => ~MapHas(fileMetadata, id)
    /\ (IsLookup(resp) /\ resp.afterExpired) => resp.result = "NotFound"

\* a call that started after the Expired answer for its identifier has been answered
C6_Witness == IsLookup(resp) /\ resp.afterExpired /\ resp.result = "NotFound"

\* C7: a call that starts after its identifier's index entry was removed returns
\* neither the metadata nor the blob, also while the blob is still on disk.
C7_NoResurrection ==
    (IsLookup(resp) /\ resp.afterRemoval) => resp.result \notin {"OK", "File"}

\* a call for a removed identifier whose blob survived a failed unlink
C7_Witness ==
    /\ IsLookup(resp) /\ resp.afterRemoval
    /\ resp.id \in uploadsDir
    /\ \A id \in FileIds : UnlinkIssuers(id) = {}

\* what GET /api/file must return for a record registered with `sub`
ExpectedInfo(id, sub) ==
    [fileId |-> id, originalName |-> sub.originalName, size |-> sub.size,
     mimetype |-> sub.mimetype, uploadTime |-> sub.uploadTime,
     expiresAt |-> sub.uploadTime + TTL]

\* C8: from Register on, a metadata lookup returns the record as it was submitted,
\* with expiry = upload time + TTL; the record leaves the index only past its TTL or
\* by capacity eviction, and a lookup of a record still in the index answers OK.
C8_RoundTrip ==
    /\ lost = {}
    /\ resp.op = "file" =>
          IF MapHas(fileMetadata, resp.id)
          THEN /\ resp.result = "OK"
               /\ resp.body = ExpectedInfo(resp.id, registered[resp.id])
          ELSE resp.result \in {"NotFound", "Expired"}

\* a lookup answered with the record some time after its upload, another record
\* having been evicted meanwhile
C8_Witness ==
    /\ resp.op = "file" /\ resp.result = "OK"
    /\ now > resp.body.uploadTime
    /\ capUnlinked # {}

\* ---- the server with uploads and timers only: no lookup, download or preview
NextQuiet ==
    \/ \E u \in Uploaders : UploadWrite(u)
    \/ \E u \in Uploaders : UploadHandler(u)
    \/ TimerCapacityPass
    \/ \E q \in PassProcs : PassUnlinkOS(q)
    \/ \E q \in PassProcs : PassResume(q)
    \/ cleanExpiredFiles
    \/ ReaperUnlinkOS
    \/ ReaperResume
    \/ Tick

\* the expiry timer keeps firing, the operating system finishes every call it was
\* given, and the event loop runs every callback that is ready
LiveSpec ==
    /\ Init /\ [][NextQuiet]_vars
    /\ SF_vars(cleanExpiredFiles)
    /\ WF_vars(ReaperUnlinkOS)
    /\ WF_vars(ReaperResume)
    /\ \A u \in Uploaders : WF_vars(UploadHandler(u))
    /\ \A q \in PassProcs : WF_vars(PassUnlinkOS(q)) /\ WF_vars(PassResume(q))

\* C10: without any request traffic, a record older than the TTL is eventually
\* removed from the index by the expiry reaper, given only that its timer fires.
C10_EventuallyReaped ==
    \A id \in FileIds :
        (MapHas(fileMetadata, id) /\ IsExpired(MapGet(fileMetadata, id), now))
            ~> ~MapHas(fileMetadata, id)

\* the expiry-reaper pass returns in this step
ReaperCompletes == reaper.pc # "idle" /\ reaper'.pc = "idle"

\* C11: when an expiry-reaper pass completes, none of the records that were older
\* than the TTL when the pass started (the ones it collected in expiredFiles) is
\* left in the index.
C11_NoExpiredLeftAfterPass ==
    [][ReaperCompletes =>
          \A j \in 1..Len(reaper.expiredFiles) :
              ~MapHas(fileMetadata', reaper.expiredFiles[j])]_vars

\* no deletion path has begun to remove the record of `id`
Untouched(id) == id \notin removed /\ UnlinkIssuers(id) = {}

\* the upload that carries `id` is between multer's write and its route handler
MidUpload(id) == \E u \in Uploaders : up[u].pc = "written" /\ up[u].file.filename = id

AccessFailed(h) ==
    /\ req[h].pc \in {"access_done", "b_access_done"}
    /\ ~req[h].ok
    /\ req'[h].pc = "idle"

\* C13: a download of a record that is in the index and not expired, but whose blob
\* is not on disk, is answered with an error other than NotFound and Expired, and
\* the stale entry is gone from the index when it is answered.
C13_MissingBlobPurged ==
    [][\A h \in Handlers :
          AccessFailed(h) =>
              /\ resp'.op \in {"download", "backend_download"}
              /\ resp'.result \notin {"NotFound", "Expired", "File"}
              /\ ~MapHas(fileMetadata', req[h].fileId)]_vars

\* C14: a preview of a record that is in the index, not expired and of an allowed
\* content type, but whose blob is not on disk, is answered with an error and the
\* stale entry is removed, as download does.
C14_PreviewMissingBlobPurged ==
    [][\A fileId \in FileIds :
          ( /\ resp'.op = "preview" /\ resp'.id = fileId
            /\ MapHas(fileMetadata, fileId)
            /\ ~IsExpired(MapGet(fileMetadata, fileId), now)
            /\ isPreviewable(MapGet(fileMetadata, fileId).mimetype)
            /\ fileId \notin uploadsDir )
          => /\ resp'.result \notin {"File", "NotFound", "Expired"}
             /\ ~MapHas(fileMetadata', fileId)]_vars

\* C15: the share page renders a record only if it is in the index and not past its
\* TTL; a record past its TTL is removed, as by a lookup, and not rendered.
C15_PageOnlyForLiveRecords ==
    resp.op = "page" =>
        IF MapHas(fileMetadata, resp.id)
        THEN /\ ~IsExpired(MapGet(fileMetadata, resp.id), now)
             /\ resp.result = "Page"
        ELSE resp.result \in {"NotFound", "Expired"}

\* the positions of expiredFiles after the current one whose record is still indexed
StillToReap(m) ==
    { j \in (reaper.i + 1)..Len(reaper.expiredFiles) : MapHas(m, reaper.expiredFiles[j]) }

\* C16: a failed unlink does not end a reaper pass: the expiry reaper goes on to the
\* next id it collected that is still indexed, and the capacity reaper to the next
\* oldest file of its list.
C16_FailureDoesNotAbort ==
    [][ /\ ( /\ reaper.pc = "unlink_done" /\ ~reaper.ok /\ reaper' # reaper
             /\ StillToReap(fileMetadata') # {} )
           => /\ reaper'.pc = "unlink_wait"
              /\ reaper'.i \in StillToReap(fileMetadata')
              /\ \A j \in StillToReap(fileMetadata') : reaper'.i <= j
        /\ \A q \in PassProcs :
              ( /\ pass[q].pc = "unlink_done" /\ ~pass[q].ok /\ pass'[q] # pass[q]
                /\ pass[q].files # << >> )
              => /\ pass'[q].pc = "unlink_wait"
                 /\ pass'[q].oldestFile = Head(pass[q].files) ]_vars

\* both reapers have gone on after a failed unlink: each is at its second candidate
\* and the first one, registered before it, is still indexed
C16_Witness ==
    /\ reaper.pc = "unlink_wait"
    /\ \E k \in 1..(reaper.i - 1) : MapHas(fileMetadata, reaper.expiredFiles[k])
    /\ \E q \in PassProcs :
          /\ pass[q].pc = "unlink_wait"
          /\ \E i \in 1..Len(fileMetadata) :
                /\ fileMetadata[i].id < pass[q].oldestFile.id
                /\ fileMetadata[i].uploadTime <= pass[q].oldestFile.uploadTime

\* C17: whenever a capacity pass evaluates its loop condition after an unlink, its
\* running total is the sum of the sizes of the records then in the index.
C17_TotalMatchesIndex ==
    [][\A q \in PassProcs :
          (pass[q].pc = "unlink_done" /\ pass'[q] # pass[q])
          => PassAfterUnlink(fileMetadata, pass[q]).totalSize = SumSize(fileMetadata')]_vars

\* C18: a record is eligible for the expiry reaper from now = uploadTime + TTL on: the
\* list a pass started now collects holds every record with now >= uploadTime + TTL.
C18_EligibleAtExpiresAt ==
    \A i \in 1..Len(fileMetadata) :
        now >= fileMetadata[i].uploadTime + TTL
        => \E j \in 1..Len(ExpiredIds(fileMetadata, now)) :
              ExpiredIds(fileMetadata, now)[j] = fileMetadata[i].id

\* C19: the expiresAt a successful upload answers with is the record's upload time
\* plus the TTL, the expiresAt a lookup of the record returns.
C19_UploadExpiryMatchesLookup ==
    (resp.op = "upload" /\ resp.result = "OK" /\ MapHas(fileMetadata, resp.id))
    => resp.body.expiresAt = FileInfo(resp.id, MapGet(fileMetadata, resp.id)).expiresAt

\* the content types the preview may serve
AllowListed(mimetype) ==
    \/ startsWith(mimetype, << "image/" >>)
    \/ startsWith(mimetype, << "text/" >>)
    \/ startsWith(mimetype, << "application/", "json" >>)
    \/ startsWith(mimetype, << "application/", "pdf" >>)

\* C20: a preview serves a blob only for a record in the index, not expired and of
\* an allowed content type; it rejects the content type only for a record in the
\* index and not expired; an unknown identifier gets NotFound and an expired record
\* Expired, its entry removed, whatever the content type.
C20_PreviewGate ==
    resp.op = "preview" =>
        /\ resp.result \in {"File", "NotPreviewable", "NotFound", "Expired"}
        /\ resp.result = "File" =>
              /\ AllowListed(resp.body.type)
              /\ MapHas(fileMetadata, resp.id)
              /\ ~IsExpired(MapGet(fileMetadata, resp.id), now)
        /\ resp.result = "NotPreviewable" =>
              /\ MapHas(fileMetadata, resp.id)
              /\ ~IsExpired(MapGet(fileMetadata, resp.id), now)
              /\ ~AllowListed(MapGet(fileMetadata, resp.id).mimetype)
        /\ resp.result = "NotFound" => ~MapHas(fileMetadata, resp.id)
        /\ resp.result = "Expired" => (~MapHas(fileMetadata, resp.id) /\ resp.id \in removed)

\* a preview of a zip archive that is in the index and not expired was rejected
C20_Witness ==
    /\ resp.op = "preview" /\ resp.result = "NotPreviewable"
    /\ MapGet(fileMetadata, resp.id).mimetype = << "application/", "zip" >>

\* C22: a successful Register has inserted its record and run its capacity pass to
\* the end before the success response is sent: no upload is answered, or idle,
\* while the pass it started is still under way.
C22_PassCompleteBeforeResponse ==
    /\ \A u \in Uploaders : up[u].pc \in {"idle", "written"} => pass[u].pc = "idle"
    /\ (resp.op = "upload" /\ resp.result = "OK") =>
          /\ resp.id \in MapIds(fileMetadata) \cup removed
          /\ \A u \in Uploaders : up[u].file.filename # resp.id

\* the upload of the second file is answered after its pass has evicted the first
C22_Witness ==
    /\ resp.op = "upload" /\ resp.result = "OK" /\ resp.id = 2
    /\ 1 \in capUnlinked /\ ~MapHas(fileMetadata, 1)

\* C24: a record is immutable: as long as its entry stays in the index, no step
\* changes its original name, size, content type, upload time or path.
C24_RecordsImmutable ==
    [][\A id \in MapIds(fileMetadata) \cap MapIds(fileMetadata') :
          MapGet(fileMetadata', id) = MapGet(fileMetadata, id)]_vars

\* a record served by a preview some time after its upload is as it was submitted
C24_Witness ==
    /\ resp.op = "preview" /\ resp.result = "File"
    /\ MapHas(fileMetadata, resp.id)
    /\ now > MapGet(fileMetadata, resp.id).uploadTime
    /\ LET r == MapGet(fileMetadata, resp.id)
       IN  [originalName |-> r.originalName, size |-> r.size, mimetype |-> r.mimetype,
            uploadTime |-> r.uploadTime] = registered[resp.id]

\* C25: no failed unlink, failed access or candidate already removed escapes as an
\* uncaught error: the reaper pass goes on or returns, the handler answers, and a
\* failed unlink nobody awaits changes nothing.
C25_FailuresAreHandled ==
    [][ /\ \A q \in PassProcs :
              (pass[q].pc = "unlink_done" /\ ~pass[q].ok /\ pass'[q] # pass[q])
              => pass'[q].pc \in {"idle", "unlink_wait"}
        /\ (reaper.pc = "unlink_done" /\ reaper' # reaper)
              => reaper'.pc \in {"idle", "unlink_wait"}
        /\ \A h \in Handlers :
              (req[h].pc \in {"unlink_done", "access_done"} /\ ~req[h].ok /\ req'[h] # req[h])
              => /\ req'[h].pc = "idle"
                 /\ resp'.op = req[h].op /\ resp'.id = req[h].fileId
                 /\ resp'.result \in {"Expired", "NotOnDisk"}
        /\ (detached' # detached /\ detached' \subseteq detached /\ uploadsDir' = uploadsDir)
              => UNCHANGED << fileMetadata, up, pass, reaper, req >> ]_vars

\* a download whose fs.access failed has been answered, after some unlink failed too
C25_Witness ==
    /\ resp.op = "download" /\ resp.result = "NotOnDisk"
    /\ unlinkFailed
    /\ \A h \in Handlers : req[h].pc = "idle"

\* the sizes of the records of m registered after `id`
LaterSizes(m, id) == SumSize(SelectSeq(m, LAMBDA r : r.id > id))

\* C26: when an upload is answered with success, its record is in the index,
\* provided its TTL has not elapsed and its size plus the sizes of the records
\* uploaded after it is at most the cap.
C26_AnsweredRecordIsIndexed ==
    [][\A u \in Uploaders :
          ( /\ up[u].pc \in {"written", "inpass"} /\ up'[u].pc = "idle"
            /\ resp'.op = "upload" /\ resp'.result = "OK"
            /\ now - (IF up[u].pc = "written" THEN now ELSE up[u].uploadTime) <= TTL
            /\ up[u].file.size + LaterSizes(fileMetadata', up[u].file.filename)
                  <= MAX_STORAGE )
          => MapHas(fileMetadata', up[u].file.filename)]_vars

\* C27: a capacity pass starts an iteration only by taking a record off its
\* snapshot list, so it runs at most as many iterations as the snapshot had records,
\* also when every unlink fails and the total never decreases.
C27_PassTerminates ==
    [][\A q \in PassProcs :
          (pass'[q].pc = "unlink_wait" /\ pass'[q] # pass[q])
          => IF pass[q].pc = "idle"
             THEN Len(pass'[q].files) < Len(fileMetadata')
             ELSE Len(pass'[q].files) < Len(pass[q].files)]_vars

\* a pass is at the last record of its snapshot and every unlink so far has failed
C27_Witness ==
    \E q \in PassProcs :
        /\ pass[q].pc = "unlink_done" /\ ~pass[q].ok /\ pass[q].files = << >>
        /\ pass[q].oldestFile.id = 2
        /\ MapHas(fileMetadata, 1) /\ MapHas(fileMetadata, 2)

\* the record of `id` is in the index, within its TTL, and its blob is on disk
Servable(id) ==
    /\ MapHas(fileMetadata, id)
    /\ now - MapGet(fileMetadata, id).uploadTime <= TTL
    /\ id \in uploadsDir

\* C28: a metadata lookup, a download or a preview of a record that is in the
\* index, not expired and on disk leaves the index and the blobs as they are.
C28_AccessLeavesStoreUnchanged ==
    [][ /\ \A id \in FileIds :
              (resp'.op \in {"file", "preview"} /\ resp'.id = id /\ Servable(id))
              => /\ UNCHANGED << fileMetadata, uploadsDir >>
                 /\ resp'.result \in {"OK", "File", "NotPreviewable"}
        /\ \A h \in Handlers, id \in FileIds :
              /\ (req[h].pc = "idle" /\ req'[h].op = "download" /\ req'[h].fileId = id
                    /\ Servable(id))
                 => (req'[h].pc = "access_wait" /\ UNCHANGED << fileMetadata, uploadsDir >>)
              /\ (req[h].pc = "access_wait" /\ req'[h] # req[h] /\ req[h].fileId = id
                    /\ id \in uploadsDir)
                 => (req'[h].ok /\ UNCHANGED << fileMetadata, uploadsDir >>)
              /\ (req[h].pc = "access_done" /\ req[h].ok /\ req'[h] # req[h])
                 => (resp'.result = "File" /\ UNCHANGED << fileMetadata, uploadsDir >>) ]_vars

\* a download of a record was served and the record and its blob are still there
C28_Witness ==
    /\ resp.op = "download" /\ resp.result = "File"
    /\ Servable(resp.id)

\* no upload, request handler, reaper pass or unawaited unlink is in progress
Quiescent ==
    /\ InFlight = 0
    /\ \A q \in PassProcs : pass[q].pc = "idle"
    /\ detached = {}

\* C29: when nothing is in progress and no unlink has failed, the blobs on disk are
\* exactly those of the identifiers in the index.
C29_DiskMatchesIndex ==
    (Quiescent /\ ~unlinkFailed) => uploadsDir = MapIds(fileMetadata)

\* nothing in progress, no failure, after an eviction and an expiry
C29_Witness ==
    /\ Quiescent /\ ~unlinkFailed
    /\ fileMetadata # << >>
    /\ capUnlinked # {}

\* a capacity pass run by itself from its call to its return, every unlink succeeding
RECURSIVE PassAlone(_, _)
PassAlone(m, p) ==
    IF p.pc = "idle" THEN m
    ELSE LET a == PassAfterUnlink(m, [p EXCEPT !.ok = TRUE])
         IN  PassAlone(a.map, PassLoop(p.files, a.totalSize))

CompletePass(m) == PassAlone(m, manageStorageCapacity(m))

\* the records of m with the greatest upload time
Newest(m) == { m[i].id : i \in { j \in 1..Len(m) :
                                   \A k \in 1..Len(m) : m[k].uploadTime <= m[j].uploadTime } }

\* C30: with every upload within the size limit, a capacity pass that runs alone
\* and whose unlinks all succeed keeps a record with the greatest upload time (the
\* one, if there is only one): it never empties a non-empty index.
C30_PassKeepsNewest ==
    fileMetadata # << >> =>
        /\ CompletePass(fileMetadata) # << >>
        /\ \E id \in Newest(fileMetadata) : MapHas(CompletePass(fileMetadata), id)

\* the index is over the cap, and a pass run alone from here evicts and keeps the newest
C30_Witness ==
    /\ SumSize(fileMetadata) > MAX_STORAGE
    /\ Len(CompletePass(fileMetadata)) < Len(fileMetadata)
    /\ \E id \in Newest(fileMetadata) : MapHas(CompletePass(fileMetadata), id)

\* neither run has a pass or a download in progress
PairQuiescent ==
    \A r \in {pair.a, pair.b} :
        /\ \A q \in PassProcs : r.pass[q].pc = "idle"
        /\ r.req.pc = "idle"

\* C21: two runs with the same uploads, capacity passes and clock, of which one
\* also serves lookups, downloads and previews of unexpired records, have evicted
\* the same records in the same order whenever both are at rest.
C21_EvictionIgnoresAccess ==
    PairQuiescent => pair.a.evicted = pair.b.evicted

\* the longest run of the most recent records of s whose sizes sum to at most the cap
RECURSIVE LongestRecentRun(_)
LongestRecentRun(s) ==
    IF SumSize(s) <= MAX_STORAGE THEN s ELSE LongestRecentRun(Tail(s))

IncreasingTimes(s) == \A i \in 1..Len(s) - 1 : s[i].uploadTime < s[i + 1].uploadTime

\* C23: with uploads made one after another at increasing times and no unlink
\* failing, once an upload is complete the index holds exactly the longest run of
\* the most recent records that fits the cap.
C23_LongestRecentRunKept ==
    (~pair.a.inpass /\ ~pair.a.failed /\ IncreasingTimes(pair.a.all))
    => pair.a.fileMetadata = LongestRecentRun(pair.a.all)

\* three files of size 2 under a cap of 3, uploaded in turn: only the third is left
C23_Witness ==
    /\ ~pair.a.inpass /\ ~pair.a.failed /\ IncreasingTimes(pair.a.all)
    /\ Len(pair.a.all) = 3
    /\ \A i \in 1..3 : pair.a.all[i].size = 2
    /\ pair.a.fileMetadata = << pair.a.all[3] >>
    /\ pair.a.evicted = << 1, 2 >>

====
